---- MODULE Spec2Model ----
(***************************************************************************)
(* Model of samsara's Stream (src/samsara/streams/_Stream.js): one Stream  *)
(* S, its upstream sources, the global tick clock, and every closure that  *)
(* createResolveStrategy has built for S.                                  *)
(***************************************************************************)
EXTENDS Integers, Sequences, FiniteSets, TLC

\* ---------------------------------------------------------------- bounds
MaxStrategies == 1   \* createResolveStrategy runs at most this often
MaxCounter == 2      \* |startCounter| stays within this under arbitrary input

Sources == {"A", "B", "C"}
Values == {1, 2}     \* payloads
ScenarioValues == {1, 2, 10}
Undefined == 0       \* JavaScript's undefined (var cache; emit without data)

\* ------------------------------------------------------------- constants
EVENTS == [START |-> "start", UPDATE |-> "update", END |-> "end",
           SET |-> "set", LOCK |-> "lockBelow", UNLOCK |-> "unlockBelow"]

SemanticKinds == {EVENTS.SET, EVENTS.START, EVENTS.UPDATE, EVENTS.END}
ControlKinds == {EVENTS.LOCK, EVENTS.UNLOCK}
AllKinds == SemanticKinds \cup ControlKinds

\* The constructor's `triggers` argument: absent, or a map in which only
\* start and end have a transform, negation (set and update are left
\* undefined).
NoTriggers == [k \in SemanticKinds |-> "none"]
SomeTriggers == [k \in SemanticKinds |->
                   IF k \in {EVENTS.START, EVENTS.END} THEN "neg" ELSE "none"]
TriggerChoices == {NoTriggers, SomeTriggers}

VARIABLES
  active,        \* subscribed source -> source._isActive
  triggers,      \* this._triggers
  upstream,      \* this._eventInput.upstream, in subscription order
  numSources,    \* this._numSources
  listeners,     \* this._eventInput listeners: kind -> handler list
  strategies,    \* closure state of every createResolveStrategy call
  tickListeners, \* handlers registered on the clock by tick.on
  ticked,        \* the clock has emitted 'tick' but not yet 'end tick'
  emitted,       \* what S emitted during the last step, in order
  lastOp,        \* the last step taken
  cycleEmits,    \* semantic events emitted this cycle with >= 2 sources
  outOpen,       \* S's output is inside a Start .. End sequence
  upLocks,       \* upstream Streams whose lockBelow is not yet answered
  pc             \* scenario position (only used by scenario specifications)

vars == <<active, triggers, upstream, numSources, listeners,
          strategies, tickListeners, ticked, emitted, lastOp, cycleEmits,
          outOpen, upLocks, pc>>

\* ---------------------------------------------------------------- helpers
Range(s) == {s[i] : i \in 1 .. Len(s)}
Ev(k, d) == [kind |-> k, data |-> d]
Remove(s, x) == SelectSeq(s, LAMBDA y : y # x)
Semantic(out) == SelectSeq(out, LAMBDA e : e.kind \in SemanticKinds)

RECURSIVE KindsOf(_)
KindsOf(out) == IF out = <<>> THEN <<>>
                ELSE <<Head(out).kind>> \o KindsOf(Tail(out))

\* `if (triggers && triggers.kind) data = triggers.kind(data)`
ApplyTrigger(kind, data) ==
  IF triggers[kind] = "neg" THEN 0 - data ELSE data

\* ------------------------------------------------- createResolveStrategy
NewStates == [set |-> FALSE, start |-> FALSE, update |-> FALSE,
              end |-> FALSE, prev |-> ""]

NewStrategy == [hasTicked |-> FALSE, startCounter |-> 0,
                hasSentLock |-> FALSE, hasReceived |-> FALSE,
                locked |-> FALSE, lockCounter |-> 0,
                states |-> NewStates, cache |-> Undefined]

\* The first if / else-if chain of resolve.  X = [r, out].
resolveFirst(X, data) ==
  LET r == X.r
      s == r.states
  IN  IF r.startCounter = 0 /\ s.update /\ s.end
      THEN [r |-> [r EXCEPT !.states.prev = EVENTS.UPDATE,
                            !.states.update = FALSE],
            out |-> Append(X.out, Ev(EVENTS.UPDATE, data))]
      ELSE IF s.prev = EVENTS.START /\ s.set
      THEN [r |-> [r EXCEPT !.states.set = FALSE], out |-> X.out]
      ELSE IF s.prev # EVENTS.UPDATE /\ s.start /\ s.update
      THEN [r |-> [r EXCEPT !.states.prev = EVENTS.START],
            out |-> Append(X.out, Ev(EVENTS.START, data))]
      ELSE X

\* resolveSecond without `(states.start && states.end)`
resolveSecondUpdateOnly(X, data) ==
  LET r == X.r
      s == r.states
  IN  IF s.update
      THEN [r |-> [r EXCEPT !.states.prev = EVENTS.UPDATE],
            out |-> Append(X.out, Ev(EVENTS.UPDATE, data))]
      ELSE IF s.prev # EVENTS.UPDATE /\ s.start /\ ~s.end
      THEN [r |-> [r EXCEPT !.states.prev = EVENTS.START],
            out |-> Append(X.out, Ev(EVENTS.START, data))]
      ELSE IF r.startCounter = 0 /\ s.prev # EVENTS.START /\ s.end /\ ~s.start
      THEN [r |-> [r EXCEPT !.states.prev = EVENTS.END],
            out |-> Append(X.out, Ev(EVENTS.END, data))]
      ELSE IF s.prev # EVENTS.UPDATE /\ s.set
      THEN [r |-> [r EXCEPT !.states.prev = EVENTS.SET],
            out |-> Append(X.out, Ev(EVENTS.SET, data))]
      ELSE X

\* The second if / else-if chain of resolve.
resolveSecond(X, data) ==
  LET r == X.r
      s == r.states
  IN  IF s.update \/ (s.start /\ s.end)
      THEN [r |-> [r EXCEPT !.states.prev = EVENTS.UPDATE],
            out |-> Append(X.out, Ev(EVENTS.UPDATE, data))]
      ELSE IF s.prev # EVENTS.UPDATE /\ s.start /\ ~s.end
      THEN [r |-> [r EXCEPT !.states.prev = EVENTS.START],
            out |-> Append(X.out, Ev(EVENTS.START, data))]
      ELSE IF r.startCounter = 0 /\ s.prev # EVENTS.START /\ s.end /\ ~s.start
      THEN [r |-> [r EXCEPT !.states.prev = EVENTS.END],
            out |-> Append(X.out, Ev(EVENTS.END, data))]
      ELSE IF s.prev # EVENTS.UPDATE /\ s.set
      THEN [r |-> [r EXCEPT !.states.prev = EVENTS.SET],
            out |-> Append(X.out, Ev(EVENTS.SET, data))]
      ELSE X

\* reset without `states.end = false`
resolveResetKeepsEnd(X) ==
  [X EXCEPT !.r.states.start = FALSE, !.r.states.update = FALSE,
            !.r.states.set = FALSE]

\* `// reset`
resolveReset(X) ==
  [X EXCEPT !.r.states.start = FALSE, !.r.states.update = FALSE,
            !.r.states.end = FALSE, !.r.states.set = FALSE]

\* resolveUnlock without `hasSentLock = false`
resolveUnlockKeepsFlag(X) ==
  IF X.r.hasSentLock
  THEN [X EXCEPT !.out = Append(X.out, Ev(EVENTS.UNLOCK, Undefined))]
  ELSE X

\* `if (hasSentLock) { self.emit('unlockBelow'); hasSentLock = false; }`
resolveUnlock(X) ==
  IF X.r.hasSentLock
  THEN [r |-> [X.r EXCEPT !.hasSentLock = FALSE],
        out |-> Append(X.out, Ev(EVENTS.UNLOCK, Undefined))]
  ELSE X

\* resolve with the unlockBelow block moved behind the reset
resolveUnlockLast(X, data) ==
  resolveUnlock(resolveReset(resolveSecond(resolveFirst(X, data), data)))

resolve(X, data) ==
  resolveReset(resolveSecond(resolveFirst(resolveUnlock(X), data), data))

\* delay resolving without `hasTicked`
delayNoTickCheck(X, data) ==
  LET X1 == [X EXCEPT !.r.cache = data, !.r.hasReceived = TRUE]
      X2 == IF ~X1.r.hasSentLock
            THEN [r |-> [X1.r EXCEPT !.hasSentLock = TRUE],
                  out |-> Append(X1.out, Ev(EVENTS.LOCK, Undefined))]
            ELSE X1
  IN  IF ~X2.r.locked THEN resolve(X2, data) ELSE X2

delay(X, data) ==
  LET X1 == [X EXCEPT !.r.cache = data, !.r.hasReceived = TRUE]
      X2 == IF ~X1.r.hasSentLock
            THEN [r |-> [X1.r EXCEPT !.hasSentLock = TRUE],
                  out |-> Append(X1.out, Ev(EVENTS.LOCK, Undefined))]
            ELSE X1
  IN  IF ~X2.r.locked /\ X2.r.hasTicked THEN resolve(X2, data) ELSE X2

\* tick.on('tick', ...)
onTick(X) ==
  LET X1 == [X EXCEPT !.r.hasTicked = TRUE]
  IN  IF ~X1.r.locked /\ X1.r.hasReceived THEN resolve(X1, X1.r.cache) ELSE X1

\* tick.on('end tick', ...)
onEndTick(X) == [X EXCEPT !.r.hasTicked = FALSE, !.r.hasReceived = FALSE]

\* this._eventInput.on(EVENTS.SET / START / END / UPDATE, ...)
onSet(X, data) ==
  delay([X EXCEPT !.r.states.set = TRUE], ApplyTrigger(EVENTS.SET, data))

onStart(X, data) ==
  delay([X EXCEPT !.r.states.start = TRUE, !.r.startCounter = @ + 1],
        ApplyTrigger(EVENTS.START, data))

onEnd(X, data) ==
  delay([X EXCEPT !.r.states.end = TRUE, !.r.startCounter = @ - 1],
        ApplyTrigger(EVENTS.END, data))

onUpdate(X, data) ==
  delay([X EXCEPT !.r.states.update = TRUE], ApplyTrigger(EVENTS.UPDATE, data))

\* this._eventInput.on('lockBelow', ...) and on('unlockBelow', ...)
onLockBelow(X) == [X EXCEPT !.r.lockCounter = @ + 1, !.r.locked = TRUE]

onUnlockBelow(X) ==
  LET c == X.r.lockCounter - 1
  IN  [X EXCEPT !.r.lockCounter = c,
                !.r.locked = IF c = 0 THEN FALSE ELSE @]

\* The handler a Resolution Strategy closure installs for `kind`.
resolveHandler(X, kind, data) ==
  CASE kind = EVENTS.SET -> onSet(X, data)
    [] kind = EVENTS.START -> onStart(X, data)
    [] kind = EVENTS.END -> onEnd(X, data)
    [] kind = EVENTS.UPDATE -> onUpdate(X, data)
    [] kind = EVENTS.LOCK -> onLockBelow(X)
    [] kind = EVENTS.UNLOCK -> onUnlockBelow(X)

\* The handler createSimpleStrategy installs for `kind`.
simpleHandler(out, kind, data) == Append(out, Ev(kind, ApplyTrigger(kind, data)))

\* ------------------------------------------- EventHandler (input channel)
Handler(strategy, id) == [strategy |-> strategy, id |-> id]

\* off(kindList): remove all listeners of the given kinds
off(ls, kinds) == [k \in AllKinds |-> IF k \in kinds THEN <<>> ELSE ls[k]]

\* on(kind, handler): register a listener
on(ls, kind, h) == [ls EXCEPT ![kind] = Append(@, h)]

RECURSIVE onAll(_, _, _)
onAll(ls, kinds, h) ==
  IF kinds = {} THEN ls
  ELSE LET k == CHOOSE x \in kinds : TRUE
       IN  onAll(on(ls, k, h), kinds \ {k}, h)

\* One listener invoked with (kind, data) on the Stream state st.
invoke(st, h, kind, data) ==
  IF h.strategy = "simple"
  THEN [st EXCEPT !.out = simpleHandler(st.out, kind, data)]
  ELSE LET X == resolveHandler([r |-> st.strategies[h.id], out |-> st.out],
                               kind, data)
       IN  [st EXCEPT !.strategies[h.id] = X.r, !.out = X.out]

RECURSIVE dispatch(_, _, _, _)
dispatch(st, hs, kind, data) ==
  IF hs = <<>> THEN st
  ELSE dispatch(invoke(st, Head(hs), kind, data), Tail(hs), kind, data)

\* Stream.prototype.trigger: EventHandler.prototype.trigger on _eventInput
trigger(st, kind, data) == dispatch(st, st.listeners[kind], kind, data)

\* ------------------------------------------------------------ strategies
createSimpleStrategy(st) ==
  [st EXCEPT !.listeners =
     onAll(off(st.listeners, AllKinds), SemanticKinds, Handler("simple", 0))]

createResolveStrategy(st) ==
  LET id == Len(st.strategies) + 1
      h == Handler("resolve", id)
  IN  [st EXCEPT
         !.strategies = Append(@, NewStrategy),
         !.tickListeners = [tick |-> Append(@.tick, id),
                            endTick |-> Append(@.endTick, id)],
         !.listeners = onAll(off(st.listeners, SemanticKinds), AllKinds, h)]

\* ------------------------------------------------ subscribe / unsubscribe
\* subscribe with `this._numSources >= 2`
subscribeAtLeastTwo(st, source, isActive, get) ==
  LET success == source \notin Range(st.upstream)
      s1 == [st EXCEPT !.upstream = Append(@, source),
                       !.numSources = @ + 1]
      s2 == IF s1.numSources >= 2 THEN createResolveStrategy(s1) ELSE s1
      s3 == IF isActive[source]
            THEN trigger(s2, EVENTS.START, get[source]) ELSE s2
  IN  IF success THEN s3 ELSE st

\* subscribe that does not test `success`
subscribeUnchecked(st, source, isActive, get) ==
  LET s1 == [st EXCEPT !.upstream = Append(@, source),
                       !.numSources = @ + 1]
      s2 == IF s1.numSources = 2 THEN createResolveStrategy(s1) ELSE s1
  IN  IF isActive[source]
      THEN trigger(s2, EVENTS.START, get[source]) ELSE s2

\* `isActive` is source._isActive and `get` what source.get() returns.
subscribe(st, source, isActive, get) ==
  LET success == source \notin Range(st.upstream)
      s1 == [st EXCEPT !.upstream = Append(@, source),
                       !.numSources = @ + 1]
      s2 == IF s1.numSources = 2 THEN createResolveStrategy(s1) ELSE s1
      s3 == IF isActive[source]
            THEN trigger(s2, EVENTS.START, get[source]) ELSE s2
  IN  IF success THEN s3 ELSE st

\* unsubscribe decrementing and switching before it triggers 'end'
unsubscribeSwitchFirst(st, source, isActive, get) ==
  LET success == source \in Range(st.upstream)
      s1 == [st EXCEPT !.upstream = Remove(@, source), !.numSources = @ - 1]
      s2 == IF s1.numSources = 1 THEN createSimpleStrategy(s1) ELSE s1
      s3 == IF isActive[source]
            THEN trigger(s2, EVENTS.END, get[source]) ELSE s2
  IN  IF success THEN s3 ELSE st

unsubscribe(st, source, isActive, get) ==
  LET success == source \in Range(st.upstream)
      s1 == [st EXCEPT !.upstream = Remove(@, source)]
      s2 == IF isActive[source]
            THEN trigger(s1, EVENTS.END, get[source]) ELSE s1
      s3 == [s2 EXCEPT !.numSources = @ - 1]
      s4 == IF s3.numSources = 1 THEN createSimpleStrategy(s3) ELSE s3
  IN  IF success THEN s4 ELSE st

\* unsubscribe() without a source: `for (i = 0; i < upstream.length; i++)
\* this.unsubscribe(upstream[i])`, the list shrinking under the loop.
RECURSIVE unsubscribeLoop(_, _, _, _)
unsubscribeLoop(st, i, isActive, get) ==
  IF i < Len(st.upstream)
  THEN unsubscribeLoop(unsubscribe(st, st.upstream[i + 1], isActive, get),
                       i + 1, isActive, get)
  ELSE st

unsubscribeAll(st, isActive, get) == unsubscribeLoop(st, 0, isActive, get)

\* ------------------------------------------------------------- the clock
RECURSIVE tickAll(_, _)
tickAll(st, ids) ==
  IF ids = <<>> THEN st
  ELSE LET X == onTick([r |-> st.strategies[Head(ids)], out |-> st.out])
       IN  tickAll([st EXCEPT !.strategies[Head(ids)] = X.r, !.out = X.out],
                   Tail(ids))

RECURSIVE endTickAll(_, _)
endTickAll(st, ids) ==
  IF ids = <<>> THEN st
  ELSE LET X == onEndTick([r |-> st.strategies[Head(ids)], out |-> st.out])
       IN  endTickAll([st EXCEPT !.strategies[Head(ids)] = X.r,
                                 !.out = X.out], Tail(ids))

\* A closure whose handlers createSimpleStrategy has removed is reachable
\* only from its two clock handlers, and resolve can run in it again only
\* from the next 'tick', and only if its hasReceived is still true then
\* (only delay sets hasReceived).  When hasReceived is false, or when the
\* clock's next signal is 'end tick' (which clears hasReceived), the
\* closure's whole state (pending flags, counters, lock flags and cache,
\* read only on the way to a resolve) is dead and the model forgets it.
installed(st, id) ==
  \E k \in AllKinds : Handler("resolve", id) \in Range(st.listeners[k])

forget(st, clockTicked) ==
  [st EXCEPT !.strategies =
     [i \in 1 .. Len(st.strategies) |->
        IF ~installed(st, i) /\ (~st.strategies[i].hasReceived \/ clockTicked)
        THEN NewStrategy
        ELSE st.strategies[i]]]

\* ----------------------------------------------------- observation state
RECURSIVE OpenAfter(_, _)
OpenAfter(open, out) ==
  IF out = <<>> THEN open
  ELSE OpenAfter(IF Head(out).kind = EVENTS.START THEN TRUE
                 ELSE IF Head(out).kind = EVENTS.END THEN FALSE
                 ELSE open, Tail(out))

RECURSIVE WellFormedFrom(_, _)
WellFormedFrom(open, out) ==
  IF out = <<>> THEN TRUE
  ELSE LET k == Head(out).kind
       IN  /\ k \in {EVENTS.UPDATE, EVENTS.END} => open
           /\ k = EVENTS.START => ~open
           /\ WellFormedFrom(OpenAfter(open, <<Head(out)>>), Tail(out))

\* lastOp: the call or signal, whether it succeeded, and the payload it was
\* given (a raw event's payload, or what get() returned).
Op(op, ok, get) == [op |-> op, ok |-> ok, get |-> get]

Cur == [upstream |-> upstream, numSources |-> numSources,
        listeners |-> listeners, strategies |-> strategies,
        tickListeners |-> tickListeners, out |-> <<>>]

\* The cycle's emission count (0, 1, or 2 for "more than one") after a step
\* that emitted st.out while the Stream had two or more sources.
Counted(st) ==
  IF cycleEmits + Len(Semantic(st.out)) > 1 THEN 2
  ELSE cycleEmits + Len(Semantic(st.out))

\* Write the Stream state st back; count is the cycle's emission count and
\* clock the clock's phase after the step.  The two observers of S's output
\* (outOpen, cycleEmits) run only when watch is set.
Commit(st, count, clock, watch) ==
  /\ upstream' = st.upstream
  /\ numSources' = st.numSources
  /\ listeners' = st.listeners
  /\ strategies' = forget(st, clock).strategies
  /\ tickListeners' = st.tickListeners
  /\ emitted' = st.out
  /\ outOpen' = IF watch THEN OpenAfter(outOpen, Semantic(st.out)) ELSE outOpen
  /\ cycleEmits' = IF watch THEN count ELSE cycleEmits

\* ------------------------------------------------------------------ Init
InitStream ==
  /\ upstream = <<>>
  /\ numSources = 0
  /\ listeners = createSimpleStrategy(
                   [listeners |-> [k \in AllKinds |-> <<>>]]).listeners
  /\ strategies = <<>>
  /\ tickListeners = [tick |-> <<>>, endTick |-> <<>>]
  /\ ticked = FALSE
  /\ emitted = <<>>
  /\ lastOp = Op("new", TRUE, Undefined)
  /\ cycleEmits = 0
  /\ outOpen = FALSE
  /\ upLocks = 0

Init ==
  /\ active = [s \in Sources |-> FALSE]
  /\ triggers \in TriggerChoices
  /\ InitStream
  /\ pc = "run"

\* --------------------------------------------------------------- actions
\* The model follows a source while it is subscribed: its _isActive when it
\* is subscribed is an input of subscribe, and from then on it is well
\* formed: Start, then Updates, then End; Set only outside a sequence.
Get(v) == [x \in Sources |-> v]

\* Where a payload plays no part (get() of a source that is not active is
\* never called; SpecSubs is not about what a source's own Start and End
\* carry) the model fixes it.
AnyValue == CHOOSE v \in Values : TRUE

SourceEmitOp(s, kind, v, watch) ==
  /\ s \in Range(upstream)
  /\ kind \in {EVENTS.START, EVENTS.SET} => ~active[s]
  /\ kind \in {EVENTS.UPDATE, EVENTS.END} => active[s]
  /\ active' = [active EXCEPT ![s] = CASE kind = EVENTS.START -> TRUE
                                       [] kind = EVENTS.END -> FALSE
                                       [] OTHER -> @]
  /\ \E st \in {trigger(Cur, kind, v)} :
         Commit(st, IF numSources >= 2 THEN Counted(st) ELSE cycleEmits, ticked, watch)
  /\ lastOp' = Op("emit", TRUE, v)
  /\ UNCHANGED <<triggers, ticked, upLocks>>

\* S.subscribe(s), with s._isActive = a and s.get() returning v
SubscribeOp(s, a, v, watch) ==
  /\ s \in Range(upstream) => a = active[s]
  /\ (s \in Range(upstream) \/ ~a) => v = AnyValue
  /\ (s \notin Range(upstream) /\ numSources = 1)
        => Len(strategies) < MaxStrategies
  /\ \E st \in {subscribe(Cur, s, [active EXCEPT ![s] = a], Get(v))} :
         Commit(st, IF numSources >= 2 THEN Counted(st) ELSE cycleEmits, ticked, watch)
  /\ active' = [active EXCEPT ![s] = a]
  /\ lastOp' = Op("subscribe", s \notin Range(upstream), v)
  /\ UNCHANGED <<triggers, ticked, upLocks>>

\* S.unsubscribe(s), with s._isActive = a and s.get() returning v
UnsubscribeOp(s, a, v, watch) ==
  /\ s \in Range(upstream) => a = active[s]
  /\ (s \notin Range(upstream) \/ ~a) => v = AnyValue
  /\ \E st \in {unsubscribe(Cur, s, [active EXCEPT ![s] = a], Get(v))} :
         Commit(st, IF st.numSources >= 2 THEN Counted(st) ELSE cycleEmits,
                ticked, watch)
  /\ active' = [active EXCEPT ![s] = FALSE]
  /\ lastOp' = Op("unsubscribe", s \in Range(upstream), v)
  /\ UNCHANGED <<triggers, ticked, upLocks>>

\* S.unsubscribe(), with every source's get() returning v
UnsubscribeAllOp(v, watch) ==
  /\ (\A x \in Range(upstream) : ~active[x]) => v = AnyValue
  /\ \E st \in {unsubscribeAll(Cur, active, Get(v))} :
         /\ Commit(st, cycleEmits, ticked, watch)
         /\ active' = [x \in Sources |-> x \in Range(st.upstream) /\ active[x]]
  /\ lastOp' = Op("unsubscribeAll", TRUE, v)
  /\ UNCHANGED <<triggers, ticked, upLocks>>

TickOp(watch) ==
  /\ ~ticked
  /\ ticked' = TRUE
  /\ \E st \in {tickAll(Cur, tickListeners.tick)} :
         Commit(st, IF numSources >= 2 THEN Counted(st) ELSE cycleEmits, TRUE, watch)
  /\ lastOp' = Op("tick", TRUE, Undefined)
  /\ UNCHANGED <<active, triggers, upLocks>>

EndTickOp(watch) ==
  /\ ticked
  /\ ticked' = FALSE
  /\ \E st \in {endTickAll(Cur, tickListeners.endTick)} :
         Commit(st, 0, FALSE, watch)
  /\ lastOp' = Op("endTick", TRUE, Undefined)
  /\ UNCHANGED <<active, triggers, upLocks>>

SourceEmit(s, kind, v) == SourceEmitOp(s, kind, v, TRUE) /\ UNCHANGED pc
Subscribe(s, a, v) == SubscribeOp(s, a, v, TRUE) /\ UNCHANGED pc
Unsubscribe(s, a, v) == UnsubscribeOp(s, a, v, TRUE) /\ UNCHANGED pc
UnsubscribeAll(v) == UnsubscribeAllOp(v, TRUE) /\ UNCHANGED pc
Tick == TickOp(TRUE) /\ UNCHANGED pc
EndTick == EndTickOp(TRUE) /\ UNCHANGED pc

\* Every call succeeds: subscribe of a source that is not subscribed,
\* unsubscribe of one that is.
Next ==
  \/ \E s \in Sources, k \in SemanticKinds, v \in Values : SourceEmit(s, k, v)
  \/ \E s \in Sources \ Range(upstream), a \in BOOLEAN, v \in Values :
        Subscribe(s, a, v)
  \/ \E s \in Range(upstream), v \in Values : Unsubscribe(s, active[s], v)
  \/ \E v \in Values : numSources > 0 /\ UnsubscribeAll(v)
  \/ Tick
  \/ EndTick

Spec == Init /\ [][Next]_vars

\* Subscription life cycle: sources that start and end, and every call of
\* subscribe and unsubscribe, failing ones included (subscribe of a
\* subscribed source, unsubscribe of one that is not).  The observers of
\* S's output are off.
SubsEmit(s, kind, v) == SourceEmitOp(s, kind, v, FALSE) /\ UNCHANGED pc
SubsSubscribe(s, a, v) == SubscribeOp(s, a, v, FALSE) /\ UNCHANGED pc
SubsUnsubscribe(s, a, v) == UnsubscribeOp(s, a, v, FALSE) /\ UNCHANGED pc
SubsUnsubscribeAll(v) == UnsubscribeAllOp(v, FALSE) /\ UNCHANGED pc
SubsTick == TickOp(FALSE) /\ UNCHANGED pc
SubsEndTick == EndTickOp(FALSE) /\ UNCHANGED pc

NextSubs ==
  \/ \E s \in Sources, k \in {EVENTS.START, EVENTS.END} :
        SubsEmit(s, k, AnyValue)
  \/ \E s \in Sources, a \in BOOLEAN, v \in Values : SubsSubscribe(s, a, v)
  \/ \E s \in Sources, a \in BOOLEAN, v \in Values :
        SubsUnsubscribe(s, a, v)
  \/ \E v \in Values : SubsUnsubscribeAll(v)
  \/ SubsTick
  \/ SubsEndTick

SpecSubs == Init /\ [][NextSubs]_vars

\* ------------------------------------------- one Resolution Strategy alone
\* S with one subscribed source gets a second one at some point of a cycle;
\* the strategy built then is fed arbitrary raw events (any kind at any
\* time, no well-formedness assumed) and clock signals.  The sources are
\* Streams themselves: each sends lockBelow and later unlockBelow, in
\* turn, before and after S builds the strategy.
Constructed == [upstream |-> <<>>, numSources |-> 0,
                listeners |-> createSimpleStrategy(
                                [listeners |-> [k \in AllKinds |-> <<>>]]).listeners,
                strategies |-> <<>>,
                tickListeners |-> [tick |-> <<>>, endTick |-> <<>>],
                out |-> <<>>]

OneSource ==
  subscribe(Constructed, "A", [x \in Sources |-> FALSE], Get(AnyValue))

TwoSources ==
  subscribe(OneSource, "B", [x \in Sources |-> FALSE], Get(AnyValue))

InitWith(st) ==
  /\ upstream = st.upstream
  /\ numSources = st.numSources
  /\ listeners = st.listeners
  /\ strategies = st.strategies
  /\ tickListeners = st.tickListeners
  /\ ticked = FALSE
  /\ emitted = <<>>
  /\ lastOp = Op("new", TRUE, Undefined)
  /\ cycleEmits = 0
  /\ outOpen = FALSE
  /\ upLocks = 0
  /\ active = [s \in Sources |-> FALSE]

InitStrategy ==
  /\ InitWith(OneSource)
  /\ triggers \in TriggerChoices
  /\ pc = "run"

\* Some subscribed source emits (kind, v).
RawEventOp(kind, v, watch) ==
  /\ numSources >= 2
  /\ kind = EVENTS.START => strategies[Len(strategies)].startCounter < MaxCounter
  /\ kind = EVENTS.END => strategies[Len(strategies)].startCounter > 0 - MaxCounter
  /\ \E st \in {trigger(Cur, kind, v)} :
         Commit(st, Counted(st), ticked, watch)
  /\ lastOp' = Op("emit", TRUE, v)
  /\ UNCHANGED <<active, triggers, ticked, upLocks>>

\* An upstream Stream sends lockBelow (it has none outstanding) or
\* unlockBelow (it has one outstanding).
LockOp(kind, watch) ==
  /\ kind = EVENTS.LOCK => upLocks < numSources /\ upLocks' = upLocks + 1
  /\ kind = EVENTS.UNLOCK => upLocks > 0 /\ upLocks' = upLocks - 1
  /\ \E st \in {trigger(Cur, kind, Undefined)} :
         Commit(st, cycleEmits, ticked, watch)
  /\ lastOp' = Op(kind, TRUE, Undefined)
  /\ UNCHANGED <<active, triggers, ticked>>

RawEvent(kind, v) == RawEventOp(kind, v, TRUE) /\ UNCHANGED pc
RawLock == LockOp(EVENTS.LOCK, TRUE) /\ UNCHANGED pc
RawUnlock == LockOp(EVENTS.UNLOCK, TRUE) /\ UNCHANGED pc
StrategySubscribe ==
  numSources = 1 /\ SubscribeOp("B", FALSE, AnyValue, TRUE) /\ UNCHANGED pc
StrategyTick == TickOp(TRUE) /\ UNCHANGED pc
StrategyEndTick == EndTickOp(TRUE) /\ UNCHANGED pc

NextStrategy ==
  \/ StrategySubscribe
  \/ \E k \in SemanticKinds, v \in Values : RawEvent(k, v)
  \/ RawLock
  \/ RawUnlock
  \/ StrategyTick
  \/ StrategyEndTick

SpecStrategy == InitStrategy /\ [][NextStrategy]_vars

\* ------------------------------------------------ the two-source scenario
\* Sources A and B, both inactive, are subscribed.  Cycle 1: A emits
\* Start(a).  Cycle 2: A emits Update(u), then B emits Start(b), then the
\* clock ticks.
InitScenario ==
  /\ active = [s \in Sources |-> FALSE]
  /\ triggers = NoTriggers
  /\ InitStream
  /\ pc \in [at : {"new"}, a : ScenarioValues, u : ScenarioValues,
             b : ScenarioValues]

ScnSubscribeA ==
  /\ pc.at = "new" /\ pc' = [pc EXCEPT !.at = "subA"]
  /\ SubscribeOp("A", FALSE, AnyValue, TRUE)
ScnSubscribeB ==
  /\ pc.at = "subA" /\ pc' = [pc EXCEPT !.at = "subB"]
  /\ SubscribeOp("B", FALSE, AnyValue, TRUE)
ScnStartA ==
  /\ pc.at = "subB" /\ pc' = [pc EXCEPT !.at = "startA"]
  /\ SourceEmitOp("A", EVENTS.START, pc.a, TRUE)
ScnTick1 ==
  /\ pc.at = "startA" /\ pc' = [pc EXCEPT !.at = "tick1"]
  /\ TickOp(TRUE)
ScnEndTick1 ==
  /\ pc.at = "tick1" /\ pc' = [pc EXCEPT !.at = "end1"]
  /\ EndTickOp(TRUE)
ScnUpdateA ==
  /\ pc.at = "end1" /\ pc' = [pc EXCEPT !.at = "updateA"]
  /\ SourceEmitOp("A", EVENTS.UPDATE, pc.u, TRUE)
ScnStartB ==
  /\ pc.at = "updateA" /\ pc' = [pc EXCEPT !.at = "startB"]
  /\ SourceEmitOp("B", EVENTS.START, pc.b, TRUE)
ScnTick2 ==
  /\ pc.at = "startB" /\ pc' = [pc EXCEPT !.at = "tick2"]
  /\ TickOp(TRUE)
ScnEndTick2 ==
  /\ pc.at = "tick2" /\ pc' = [pc EXCEPT !.at = "end2"]
  /\ EndTickOp(TRUE)

NextScenario ==
  \/ ScnSubscribeA
  \/ ScnSubscribeB
  \/ ScnStartA
  \/ ScnTick1
  \/ ScnEndTick1
  \/ ScnUpdateA
  \/ ScnStartB
  \/ ScnTick2
  \/ ScnEndTick2

SpecScenario == InitScenario /\ [][NextScenario]_vars

\* ================================================================ claims
Live == strategies[Len(strategies)]   \* the closure whose handlers are installed
Last(q) == q[Len(q)]

\* C1: with two or more sources, the Stream emits at most one semantic
\* event (Set, Start, Update or End) in a clock cycle, whatever raw events
\* arrive and whether they arrive before or after the tick.
C1_OneEventPerCycle == numSources >= 2 => cycleEmits <= 1

\* C3: while the Stream has zero or one sources, a raw event is relayed as
\* exactly one event carrying that kind's transform of its payload, and
\* the Stream emits nothing in response to 'tick' or 'end tick'.
C3_SimpleRelayOnly ==
  numSources <= 1 =>
    /\ lastOp.op \in {"tick", "endTick"} => emitted = <<>>
    /\ lastOp.op = "emit" =>
         \E k \in SemanticKinds : emitted = <<Ev(k, ApplyTrigger(k, lastOp.get))>>

\* C5: fed by well-formed sources, what the Stream emits is well formed:
\* Update and End only inside an open sequence, Start only outside one.
C5_OutputWellFormed == [][WellFormedFrom(outOpen, Semantic(emitted'))]_vars

\* C6: fed by well-formed sources, the installed Resolution Strategy's
\* startCounter is never negative.
C6_CounterNonNegative == numSources >= 2 => Live.startCounter >= 0

\* C9: A and B subscribed, both inactive.  Cycle 1: A emits Start(a); the
\* Stream emits exactly Start(a).  Cycle 2: A emits Update(u), B emits
\* Start(b), tick; the Stream emits exactly one event, Start(b), no Update.
C9_JoinMidFlow ==
  /\ pc.at = "tick1" => Semantic(emitted) = <<Ev(EVENTS.START, pc.a)>>
  /\ pc.at = "tick2" =>
       /\ Semantic(emitted) = <<Ev(EVENTS.START, pc.b)>>
       /\ cycleEmits = 1

\* A step in which the clock ticks and the installed strategy resolves.
TickResolves ==
  /\ numSources >= 2
  /\ ~ticked /\ ticked'
  /\ Live.hasReceived /\ ~Live.locked

\* The spec's rules 1 to 8 over a strategy's state, each with the negation
\* of the rules before it: the kind to emit, "" for none.
DecisionList(r) ==
  LET s == r.states
  IN  IF r.startCounter = 0 /\ s.update /\ s.end THEN EVENTS.UPDATE
      ELSE IF s.prev = EVENTS.START /\ s.set THEN ""
      ELSE IF s.prev # EVENTS.UPDATE /\ s.start /\ s.update THEN EVENTS.START
      ELSE IF s.update \/ (s.start /\ s.end) THEN EVENTS.UPDATE
      ELSE IF s.prev # EVENTS.UPDATE /\ s.start /\ ~s.end THEN EVENTS.START
      ELSE IF r.startCounter = 0 /\ s.prev # EVENTS.START /\ s.end /\ ~s.start
           THEN EVENTS.END
      ELSE IF s.prev # EVENTS.UPDATE /\ s.set THEN EVENTS.SET
      ELSE ""

\* C2: one call of resolve emits the single event of the first matching
\* rule of the 8-rule list, nothing when that is rule 2 or rule 8, and
\* sets previousEmittedKind to the emitted kind.
C2_FirstMatchWins ==
  [][TickResolves =>
       LET k == DecisionList(Live)
       IN  /\ KindsOf(Semantic(emitted')) = IF k = "" THEN <<>> ELSE <<k>>
           /\ Live'.states.prev = IF k = "" THEN Live.states.prev ELSE k]_vars

\* C10: Start and then End received in one cycle before any resolve, no
\* Update or Set pending: the next resolve emits exactly one event, an
\* Update carrying the payload received last (the end transform of it),
\* whatever previousEmittedKind and the counter are.
C10_TransientIsUpdate ==
  [][(/\ TickResolves
      /\ lastOp.op = "emit"
      /\ Live.states.start /\ Live.states.end
      /\ ~Live.states.update /\ ~Live.states.set)
     => emitted' = <<Ev(EVENTS.UNLOCK, Undefined),
                     Ev(EVENTS.UPDATE, ApplyTrigger(EVENTS.END, lastOp.get))>>]_vars

\* Start and End are pending, nothing else, the last emission was a Start
\* and the tick is next.
C10_Witness ==
  /\ numSources >= 2
  /\ ~ticked /\ Live.hasReceived /\ ~Live.locked
  /\ Live.states = [NewStates EXCEPT !.start = TRUE, !.end = TRUE,
                                     !.prev = EVENTS.START]

\* What one resolve emits, as the kinds in order: the first matching of
\* rules 1 to 3 acts (rule 1 emits Update and clears pendingUpdate, rule 2
\* clears pendingSet, rule 3 emits Start), then the first matching of rules
\* 4 to 8 acts on what that left.
ResolveOutcome(r) ==
  LET s == r.states
  IN  IF r.startCounter = 0 /\ s.update /\ s.end
      THEN IF s.start THEN <<EVENTS.UPDATE, EVENTS.UPDATE>>
           ELSE <<EVENTS.UPDATE, EVENTS.END>>
      ELSE IF s.prev = EVENTS.START /\ s.set
      THEN IF s.update \/ (s.start /\ s.end) THEN <<EVENTS.UPDATE>>
           ELSE IF s.start THEN <<EVENTS.START>>
           ELSE <<>>
      ELSE IF s.prev # EVENTS.UPDATE /\ s.start /\ s.update
      THEN <<EVENTS.START, EVENTS.UPDATE>>
      ELSE IF DecisionList(r) = "" THEN <<>> ELSE <<DecisionList(r)>>

\* The strategy state after a resolve that emitted `kinds`.
Resolved(r, kinds) ==
  [r EXCEPT !.hasSentLock = FALSE,
            !.states = [NewStates EXCEPT !.prev = IF kinds = <<>> THEN r.states.prev
                                                  ELSE Last(kinds)]]

\* One resolve of the installed strategy, at the tick, emits ResolveOutcome
\* with the cached payload and leaves Resolved.
ResolveOutcomeAtTick ==
  [][TickResolves =>
       /\ Semantic(emitted') =
            [i \in 1 .. Len(ResolveOutcome(Live)) |->
               Ev(ResolveOutcome(Live)[i], Live.cache)]
       /\ Live' = Resolved([Live EXCEPT !.hasTicked = TRUE],
                           ResolveOutcome(Live))]_vars

\* A raw event (kind, d) recorded by a strategy in state r: steps 2 to 4 of
\* the per-event algorithm.
Recorded(r, kind, d) ==
  [r EXCEPT !.states.start = @ \/ kind = EVENTS.START,
            !.states.end = @ \/ kind = EVENTS.END,
            !.startCounter = IF kind = EVENTS.START THEN @ + 1 ELSE @ - 1,
            !.cache = d, !.hasReceived = TRUE, !.hasSentLock = TRUE]

\* What the Stream emits, and what the strategy is left in, when a
\* strategy in state r is handed the raw event (kind, d): nothing while it
\* has not seen this cycle's tick or is locked, one resolve otherwise.
EmitsHanded(r, kind, d) ==
  IF r.hasTicked /\ ~r.locked
  THEN [i \in 1 .. Len(ResolveOutcome(Recorded(r, kind, d))) |->
          Ev(ResolveOutcome(Recorded(r, kind, d))[i], d)]
  ELSE <<>>

LeftHanded(r, kind, d) ==
  IF r.hasTicked /\ ~r.locked
  THEN Resolved(Recorded(r, kind, d), ResolveOutcome(Recorded(r, kind, d)))
  ELSE Recorded(r, kind, d)

\* ---- C4
ResolveInstalled ==
  \A k \in AllKinds : listeners[k] = <<Handler("resolve", Len(strategies))>>

SimpleInstalled ==
  /\ \A k \in SemanticKinds : listeners[k] = <<Handler("simple", 0)>>
  /\ \A k \in ControlKinds : listeners[k] = <<>>

StrategyByCount ==
  /\ numSources = Len(upstream)
  /\ numSources >= 2 => ResolveInstalled
  /\ numSources <= 1 => SimpleInstalled

SubscribedActive ==
  /\ lastOp'.op = "subscribe" /\ lastOp'.ok
  /\ active'[Last(upstream')]

\* C7: a successful subscribe to an active source emits, inside the call, a
\* Start carrying (the start transform of) source.get(), and no Update or
\* End before it, whichever strategy is active after the subscription.
C7_StartInsideSubscribe ==
  [][SubscribedActive =>
       /\ Semantic(emitted') # <<>>
       /\ Head(Semantic(emitted')) =
            Ev(EVENTS.START, ApplyTrigger(EVENTS.START, lastOp'.get))]_vars

\* C7 as amended: when the source is then the Stream's only one, the Stream
\* emits exactly that Start inside the call; when the Stream then has two
\* or more, the raw Start is handed to the Resolution Strategy (the fresh
\* one when the call built it).
C7_StartOnSubscribe ==
  [][SubscribedActive =>
       LET d == ApplyTrigger(EVENTS.START, lastOp'.get)
       IN  IF numSources' = 1
           THEN emitted' = <<Ev(EVENTS.START, d)>>
           ELSE LET r == IF numSources = 1 THEN NewStrategy ELSE Live
                IN  /\ Semantic(emitted') = EmitsHanded(r, EVENTS.START, d)
                    /\ Live' = LeftHanded(r, EVENTS.START, d)]_vars

\* An active source has been subscribed as the second one: its Start is
\* pending and nothing was emitted.
C7_Witness ==
  /\ lastOp.op = "subscribe" /\ lastOp.ok
  /\ numSources = 2 /\ active[Last(upstream)]
  /\ Semantic(emitted) = <<>>
  /\ Live.states.start

\* ---- C8
\* A step in which unsubscribe succeeded on an active source.
UnsubscribedActive ==
  /\ lastOp'.op = "unsubscribe" /\ lastOp'.ok
  /\ \E s \in Range(upstream) \ Range(upstream') : active[s]

Count(kind, out) == Len(SelectSeq(out, LAMBDA e : e.kind = kind))

\* A step in which the installed strategy runs resolve: at the tick, or
\* inside delay for a raw event received after the tick.
ResolveRuns ==
  \/ TickResolves
  \/ /\ numSources >= 2
     /\ lastOp'.op = "emit"
     /\ Live.hasTicked /\ ~Live.locked

\* C11: for one Resolution Strategy, Locks emitted minus Unlocks emitted is
\* 0 or 1 and equals hasSentLock (it is 0 when the strategy is built and
\* every step changes both alike); every resolve emits exactly one Unlock
\* and leaves the balance 0.
C11_LockBalance ==
  [][numSources' >= 2 =>
       /\ (IF Live'.hasSentLock THEN 1 ELSE 0) =
            (IF numSources >= 2 /\ Live.hasSentLock THEN 1 ELSE 0)
            + Count(EVENTS.LOCK, emitted') - Count(EVENTS.UNLOCK, emitted')
       /\ ResolveRuns =>
            /\ Count(EVENTS.UNLOCK, emitted') = 1
            /\ ~Live'.hasSentLock]_vars

\* The tick resolved two accumulated raw events: one Unlock, balance 0.
C11_Witness ==
  /\ numSources >= 2
  /\ lastOp.op = "tick"
  /\ Count(EVENTS.UNLOCK, emitted) = 1
  /\ Len(Semantic(emitted)) = 2
  /\ ~Live.hasSentLock

\* ---- C12
\* C12: the Stream has one 'tick' and one 'end tick' handler on the clock
\* while it has two or more sources, and none otherwise.
C12_ClockHandlers ==
  /\ Len(tickListeners.tick) = (IF numSources >= 2 THEN 1 ELSE 0)
  /\ Len(tickListeners.endTick) = (IF numSources >= 2 THEN 1 ELSE 0)

\* ---- C13
\* A step that is a call of subscribe or unsubscribe(source) returning
\* false: subscribe of a subscribed source, unsubscribe of one that is not
\* subscribed, the source active or not.
FailedCall == lastOp'.op \in {"subscribe", "unsubscribe"} /\ ~lastOp'.ok

\* C13: a failed subscribe or unsubscribe changes nothing: upstream, the
\* source count, the installed handlers, every strategy's state and the
\* clock's handlers are as before, and nothing is triggered or emitted.
C13_FailedCallChangesNothing ==
  [][FailedCall =>
       /\ emitted' = <<>>
       /\ UNCHANGED <<upstream, numSources, listeners, strategies,
                      tickListeners>>]_vars

\* subscribe of an active source that is subscribed already has failed,
\* under Resolution Strategy.
C13_Witness ==
  /\ lastOp.op = "subscribe" /\ ~lastOp.ok
  /\ numSources >= 2
  /\ \A s \in Range(upstream) : active[s]
  /\ emitted = <<>>

\* ---- C14
\* C14: after unsubscribe() without a source no source is subscribed, the
\* count is 0 and Simple Relay is installed.
C14_UnsubscribeAll ==
  lastOp.op = "unsubscribeAll" =>
     /\ upstream = <<>>
     /\ numSources = 0
     /\ SimpleInstalled

\* ---- C15
NoPending(r) ==
  ~r.states.set /\ ~r.states.start /\ ~r.states.update /\ ~r.states.end

\* C15: in the state a resolve leaves, all pending flags are false, and
\* resolve run again at once, with any payload, emits nothing (no semantic
\* event, no Unlock) and changes nothing of the strategy's state
\* (states.prev included).
C15_ResolveIdempotent ==
  [][ResolveRuns =>
       /\ NoPending(Live')
       /\ \A d \in Values \cup {Undefined, Live'.cache} :
             resolve([r |-> Live', out |-> <<>>], d) =
               [r |-> Live', out |-> <<>>]]_vars

\* A tick's resolve has emitted End and left states.prev = 'end'.
C15_Witness ==
  /\ numSources >= 2
  /\ lastOp.op = "tick"
  /\ KindsOf(Semantic(emitted)) = <<EVENTS.END>>
  /\ Live.states.prev = EVENTS.END
  /\ NoPending(Live)

\* ---- C16
\* C16: a resolve that runs with startCounter = 0 and both states.update
\* and states.end set emits Update and nothing else (the End is left for a
\* later resolve).
C16_EndAbsorbed ==
  [][(TickResolves /\ Live.startCounter = 0
        /\ Live.states.update /\ Live.states.end)
       => KindsOf(Semantic(emitted')) = <<EVENTS.UPDATE>>]_vars

\* ---- C17
\* C17: a Resolution Strategy emits no semantic event, from a raw event or
\* from a tick, while its lockCounter is above 0 or while an upstream
\* Stream's lockBelow is not yet answered by its unlockBelow.
C17_BlockedWhileLocked ==
  [][(numSources >= 2 /\ Semantic(emitted') # <<>>)
       => Live.lockCounter <= 0 /\ upLocks = 0]_vars

\* ---- C18
\* C18: in every state of a Resolution Strategy the locked flag is true
\* exactly when lockCounter is above 0, so that a raw event received after
\* the tick with lockCounter = 0 is resolved at once.
C18_LockedIffDepth ==
  numSources >= 2 => (Live.locked <=> Live.lockCounter > 0)

\* ---- C19
\* C19: at a tick at which the strategy is not locked (lockCounter = 0) and
\* some pending flag is set, whichever cycle the raw events came in, the
\* strategy resolves: the flags are clear afterwards and the Lock it had
\* sent is answered.
C19_TickResolvesPending ==
  [][(numSources >= 2 /\ ~ticked /\ ticked'
        /\ Live.lockCounter = 0 /\ ~Live.locked /\ ~NoPending(Live))
       => NoPending(Live') /\ ~Live'.hasSentLock]_vars

\* ---- C20
\* Positions of the Unlock and of the semantic events in one step's output.
UnlockAt(out) == {i \in DOMAIN out : out[i].kind = EVENTS.UNLOCK}
SemanticAt(out) == {i \in DOMAIN out : out[i].kind \in SemanticKinds}

\* C20 as claimed: in a resolve that emits a semantic event and had sent a
\* Lock, the Unlock comes after the event on the Stream's output.
C20_UnlockAfterEvent ==
  [][(numSources >= 2 /\ SemanticAt(emitted') # {})
       => \A i \in UnlockAt(emitted'), j \in SemanticAt(emitted') : j < i]_vars

\* C20 amended: every resolve that emits a semantic event emits exactly
\* one Unlock, before the event or events; when it returns the pending
\* flags and hasSentLock are all false.
C20_UnlockBeforeEvent ==
  [][(numSources >= 2 /\ SemanticAt(emitted') # {})
       => /\ Cardinality(UnlockAt(emitted')) = 1
          /\ \A i \in UnlockAt(emitted'), j \in SemanticAt(emitted') : i < j
          /\ NoPending(Live')
          /\ ~Live'.hasSentLock]_vars

\* A tick's resolve has sent the Unlock and then Start.
C20_Witness ==
  /\ numSources >= 2
  /\ lastOp.op = "tick"
  /\ KindsOf(emitted) = <<EVENTS.UNLOCK, EVENTS.START>>
  /\ NoPending(Live)
====
